---- MODULE Spec2Model ----
(***************************************************************************)
(* A model of the n-gram language model of NGram/NGram.py: training        *)
(* (_read_training_data), ngram_probability, sentence_probability, the     *)
(* cumulative PMF (_pmf), _pmf_selection and generate_sentence.            *)
(*                                                                         *)
(* Representation.                                                         *)
(*  - A token is a string.  A training line or a sentence is the sequence  *)
(*    of its single-space-separated word tokens; the empty sequence is the *)
(*    empty line, whose wrapped form '<s>  </s>' holds a double space.     *)
(*  - A Python value used as a key of the n-gram Counter is a record       *)
(*    [py |-> "tuple", v |-> <<tokens>>] for a tuple and                   *)
(*    [py |-> "str", v |-> <<characters>>] for a str (the match objects    *)
(*    re.findall returns when the pattern has one group).                  *)
(*  - A Counter is [keys |-> insertion order, cnt |-> key -> count].       *)
(*  - Probabilities are exact fractions [num, den]; a float division by    *)
(*    zero is the outcome "ZeroDivisionError".  A log10-probability is     *)
(*    kept as the fraction whose log10 it is, or as "-inf".                *)
(***************************************************************************)
EXTENDS Integers, Sequences, FiniteSets, TLC

(***************************************************************************)
(* Bounds of the model.                                                    *)
(***************************************************************************)
\* The largest order N (the smallest is -1).
MaxN == 4
\* The most lines of the training data, and the most word tokens they hold
\* altogether.
MaxLines == 2
MaxTokens == 2
\* The most word tokens of a sentence passed to sentence_probability.
MaxSentWords == 2
\* The largest sentence_count passed to generate_sentence.
MaxCount == 1
\* The token count at which the model stops extending a generated sentence.
MaxSentLen == 4
\* _pmf_selection on its own: the most entries of a list, the denominator
\* of the masses and of r, and the largest numerator of a mass.
SelMaxLen == 3
SelDen == 4
SelMaxNum == 5

Words == {"a", "b"}
OOV == "x"
START == "<s>"
STOP == "</s>"

Orders == (0 - 1)..MaxN

(***************************************************************************)
(* Python values.                                                          *)
(***************************************************************************)
Tuple(seq) == [py |-> "tuple", v |-> seq]

\* The characters of a token, as the str Python holds.
Chars(tok) ==
    IF tok = START THEN <<"<", "s", ">">>
    ELSE IF tok = STOP THEN <<"<", "/", "s", ">">>
    ELSE <<tok>>

Str(tok) == [py |-> "str", v |-> Chars(tok)]

\* x[:-1], x[1:], x[0], x[-1] on a tuple or a str.
DropLast(x) == [x EXCEPT !.v = SubSeq(x.v, 1, Len(x.v) - 1)]
DropFirst(x) == [x EXCEPT !.v = SubSeq(x.v, 2, Len(x.v))]
First(x) == x.v[1]
Last(x) == x.v[Len(x.v)]

(***************************************************************************)
(* collections.Counter, in insertion order.                                *)
(***************************************************************************)
EmptyCounter == [keys |-> <<>>, cnt |-> [k \in {} |-> 0]]

\* c[k]: a missing key reads as 0 and is not inserted.
Count(c, k) == IF k \in DOMAIN c.cnt THEN c.cnt[k] ELSE 0

\* c[k] += 1
Inc(c, k) ==
    IF k \in DOMAIN c.cnt
    THEN [c EXCEPT !.cnt[k] = @ + 1]
    ELSE [keys |-> Append(c.keys, k), cnt |-> (k :> 1) @@ c.cnt]

RECURSIVE SumSeq(_, _, _)
SumSeq(vals, lo, hi) ==
    IF lo > hi THEN 0
    ELSE IF lo = hi THEN vals[lo]
    ELSE LET mid == (lo + hi) \div 2
         IN SumSeq(vals, lo, mid) + SumSeq(vals, mid + 1, hi)

\* sum(c.values())
SumValues(c) ==
    SumSeq([i \in 1..Len(c.keys) |-> c.cnt[c.keys[i]]], 1, Len(c.keys))

(***************************************************************************)
(* Lines, wrapping and the regular expression.                             *)
(***************************************************************************)
\* '<s> ' + line.rstrip() + ' </s>', as its whitespace-separated tokens
\* (line.split()).
Wrap(line) == <<START>> \o line \o <<STOP>>

\* Whether exactly one space separates token i of the wrapped line from
\* token i+1: the empty line is wrapped as '<s>  </s>'.
SingleSpaceAfter(line, i) == line # <<>>

\* A variant of FindAll whose pattern consumes the n tokens of a match (no
\* look-ahead), so that matches do not overlap.
FindAllConsuming(line, n) ==
    LET toks == <<"<s>">> \o line \o <<"</s>">>
    IN IF n <= 1
       THEN toks
       ELSE [s \in 1..(IF line = <<>> THEN 0 ELSE Len(toks) \div n) |->
               [py |-> "tuple", v |-> SubSeq(toks, (s - 1) * n + 1, s * n)]]

\* re.findall(self.regex, wrapped line): the regex built for order n has one
\* group when n <= 1 (each match is a str, here the token) and n groups
\* otherwise (each match is the tuple of n tokens separated by single
\* spaces, found at every token where n tokens follow one another).
FindAll(line, n) ==
    LET toks == Wrap(line)
    IN IF n <= 1
       THEN toks
       ELSE LET starts == SelectSeq([i \in 1..Len(toks) |-> i],
                              LAMBDA i : /\ i + n - 1 <= Len(toks)
                                         /\ \A j \in i..(i + n - 2) :
                                              SingleSpaceAfter(line, j))
            IN [s \in 1..Len(starts) |->
                  Tuple(SubSeq(toks, starts[s], starts[s] + n - 1))]

\* A match of FindAll as the Python sequence it is: a str when n <= 1.
Match(m, n) == IF n <= 1 THEN Str(m) ELSE m

(***************************************************************************)
(* _read_training_data.  The tables under construction are                 *)
(* [wordcount, ngrams, err]; err names the exception that ended training.  *)
(***************************************************************************)
NewTables == [wordcount |-> EmptyCounter, ngrams |-> EmptyCounter, err |-> "none"]

\* for i in range(1, self.N): self.wordcount[line.split()[-i]] += 1
RECURSIVE TrailingPass(_, _, _, _)
TrailingPass(st, toks, i, n) ==
    IF i >= n \/ st.err # "none" THEN st
    ELSE IF i > Len(toks) THEN [st EXCEPT !.err = "IndexError"]
    ELSE TrailingPass([st EXCEPT !.wordcount = Inc(@, toks[Len(toks) - i + 1])],
                      toks, i + 1, n)

\* for ngram in re.findall(self.regex, line): ...
RECURSIVE CountMatches(_, _, _, _)
CountMatches(st, ms, i, n) ==
    IF i > Len(ms) THEN st
    ELSE CountMatches(
           IF n = 1
           THEN [st EXCEPT !.wordcount = Inc(@, ms[i]),
                           !.ngrams = Inc(@, Tuple(<<ms[i]>>))]
           ELSE [st EXCEPT !.wordcount = Inc(@, First(Match(ms[i], n))),
                           !.ngrams = Inc(@, Match(ms[i], n))],
           ms, i + 1, n)

\* The body of "for line in trainingdata.readlines()" for one line.
ReadLine(st, line, n) ==
    LET t == TrailingPass(st, Wrap(line), 1, n)
    IN IF t.err # "none" THEN t ELSE CountMatches(t, FindAll(line, n), 1, n)

RECURSIVE ReadLines(_, _, _, _)
ReadLines(st, lines, k, n) ==
    IF k > Len(lines) \/ st.err # "none" THEN st
    ELSE ReadLines(ReadLine(st, lines[k], n), lines, k + 1, n)

RECURSIVE Pow(_, _)
Pow(b, e) == IF e <= 0 THEN 1 ELSE b * Pow(b, e - 1)

\* itertools.product(keys, repeat=n), in the order it yields: the rightmost
\* position advances fastest.
Product(keys, n) ==
    LET L == Len(keys)
    IN [i \in 1..(IF L = 0 /\ n > 0 THEN 0 ELSE Pow(L, n)) |->
          Tuple([d \in 1..n |-> keys[(((i - 1) \div Pow(L, n - d)) % L) + 1]])]

\* c[k] += 1 for every k of ks, a sequence without repetition.
IncAll(c, ks) ==
    LET R == {ks[i] : i \in 1..Len(ks)}
    IN [keys |-> c.keys \o SelectSeq(ks, LAMBDA k : k \notin DOMAIN c.cnt),
        cnt |-> [k \in DOMAIN c.cnt \cup R |->
                   Count(c, k) + (IF k \in R THEN 1 ELSE 0)]]

\* A variant of Smooth that adds one to the n-grams seen in training only.
SmoothSeenOnly(st, n) ==
    IF n < 0
    THEN [st EXCEPT !.err = "ValueError"]
    ELSE [st EXCEPT
            !.wordcount = IF n = 1 THEN [@ EXCEPT !.cnt = [w \in DOMAIN @ |-> @[w] + 1]]
                          ELSE @,
            !.ngrams = [@ EXCEPT !.cnt = [k \in DOMAIN @ |-> @[k] + 1]]]

\* if self.smoothing: ...
Smooth(st, n) ==
    IF n = 1
    THEN [st EXCEPT
            !.wordcount = [@ EXCEPT !.cnt = [w \in DOMAIN @ |-> @[w] + 1]],
            !.ngrams = IncAll(@, [i \in 1..Len(st.wordcount.keys) |->
                                    Tuple(<<st.wordcount.keys[i]>>)])]
    ELSE IF n < 0
    THEN [st EXCEPT !.err = "ValueError"]
    ELSE [st EXCEPT !.ngrams = IncAll(@, Product(st.wordcount.keys, n))]

ReadTrainingData(n, lines, smooth) ==
    LET st == ReadLines(NewTables, lines, 1, n)
    IN IF st.err = "none" /\ smooth THEN Smooth(st, n) ELSE st

(***************************************************************************)
(* Exact fractions.                                                        *)
(***************************************************************************)
RECURSIVE Gcd(_, _)
Gcd(a, b) == IF b = 0 THEN a ELSE Gcd(b, a % b)

Frac(num, den) ==
    LET g == Gcd(num, den) IN [num |-> num \div g, den |-> den \div g]

Zero == [num |-> 0, den |-> 1]
One == [num |-> 1, den |-> 1]
FAdd(a, b) == Frac(a.num * b.den + b.num * a.den, a.den * b.den)
FMul(a, b) == Frac(a.num * b.num, a.den * b.den)
FLt(a, b) == a.num * b.den < b.num * a.den
FLe(a, b) == a.num * b.den <= b.num * a.den

(***************************************************************************)
(* ngram_probability.                                                      *)
(***************************************************************************)
\* A variant of Denominator that divides by the token count of the first
\* token, as Bigram._entry_probability of oldfiles/Bigram.py does.
DenominatorFirstToken(wc, ng, n, g) ==
    IF n = 1 THEN SumValues(wc)
    ELSE IF Len(g.v) = 0 THEN 0
    ELSE Count(wc, First(g))

\* The divisor: sum(self.wordcount.values()) when N == 1, and otherwise the
\* sum of the counts of the keys k of self.ngrams with k[:-1] == ngram[:-1].
Denominator(wc, ng, n, g) ==
    IF n = 1
    THEN SumValues(wc)
    ELSE SumSeq([i \in 1..Len(ng.keys) |->
                   IF DropLast(ng.keys[i]) = DropLast(g)
                   THEN ng.cnt[ng.keys[i]] ELSE 0],
                1, Len(ng.keys))

\* [err, p]: err is "ZeroDivisionError" when the divisor is 0.
NgramProbability(wc, ng, n, g) ==
    LET den == Denominator(wc, ng, n, g)
    IN IF den = 0
       THEN [err |-> "ZeroDivisionError", p |-> Zero]
       ELSE [err |-> "none", p |-> Frac(Count(ng, g), den)]

(***************************************************************************)
(* sentence_probability.  The running value is [kind, p]: kind "float"     *)
(* with log10(p) the value, kind "-inf", or the name of the exception      *)
(* that left the loop.                                                     *)
(***************************************************************************)
RECURSIVE ScoreMatches(_, _, _, _, _, _)
ScoreMatches(acc, ms, i, wc, ng, n) ==
    IF i > Len(ms) \/ acc.kind \notin {"float", "-inf"} THEN acc
    ELSE LET g == IF n = 1 THEN Tuple(<<ms[i]>>) ELSE Match(ms[i], n)
             q == NgramProbability(wc, ng, n, g)
             next ==
               IF q.err # "none" THEN [kind |-> q.err, p |-> Zero]
               \* log10(0.0) raises ValueError: probability = float('-inf')
               ELSE IF q.p.num = 0 THEN [kind |-> "-inf", p |-> Zero]
               \* -inf + log10(p) is -inf
               ELSE IF acc.kind = "-inf" THEN acc
               ELSE [kind |-> "float", p |-> FMul(acc.p, q.p)]
         IN ScoreMatches(next, ms, i + 1, wc, ng, n)

SentenceProbability(wc, ng, n, sent) ==
    ScoreMatches([kind |-> "float", p |-> One], FindAll(sent, n), 1, wc, ng, n)

(***************************************************************************)
(* _pmf and _pmf_selection.                                                *)
(***************************************************************************)
None == [py |-> "None", v |-> <<>>]

\* mass.append((ngram, probability + psum)); psum += probability
RECURSIVE Cumulate(_, _, _, _, _, _)
Cumulate(ks, i, psum, wc, ng, n) ==
    IF i > Len(ks) THEN <<>>
    ELSE LET m == FAdd(NgramProbability(wc, ng, n, ks[i]).p, psum)
         IN <<[ngram |-> ks[i], mass |-> m]>> \o Cumulate(ks, i + 1, m, wc, ng, n)

\* _pmf(cmpfunc), given the keys of self.ngrams that satisfy cmpfunc, in the
\* Counter's order.
Pmf(ks, wc, ng, n) == Cumulate(ks, 1, Zero, wc, ng, n)

\* lambda x : x[0] == '<s>'
StartKeys(ng) == SelectSeq(ng.keys, LAMBDA x : First(x) = START)
\* lambda x : True
AllKeys(ng) == ng.keys
\* lambda x : x[:-1] == current_ngram[1:]
ContextKeys(ng, cur) == SelectSeq(ng.keys, LAMBDA x : DropLast(x) = DropFirst(cur))

\* The loop of _pmf_selection from entry i on.  The else branch assigns to
\* "lassmass", a fresh local: lastmass keeps its initial value 0.0.
RECURSIVE SelectFrom(_, _, _, _)
SelectFrom(r, md, i, lastmass) ==
    IF i > Len(md) THEN None
    ELSE IF FLt(lastmass, r) /\ FLe(r, md[i].mass) THEN md[i].ngram
    ELSE SelectFrom(r, md, i + 1, lastmass)

\* A variant of _pmf_selection that tests r >= lastmass.
RECURSIVE SelectFromInclusive(_, _, _)
SelectFromInclusive(r, md, i) ==
    IF i > Len(md) THEN [py |-> "None", v |-> <<>>]
    ELSE IF FLe([num |-> 0, den |-> 1], r) /\ FLe(r, md[i].mass) THEN md[i].ngram
    ELSE SelectFromInclusive(r, md, i + 1)

PmfSelectionInclusive(r, md) == SelectFromInclusive(r, md, 1)

PmfSelection(r, md) == SelectFrom(r, md, 1, Zero)

\* The selection loop of Bigram.generate_sentence (oldfiles/Bigram.py), whose
\* else branch is "lastmass = mass".
RECURSIVE SelectFromUpdating(_, _, _, _)
SelectFromUpdating(r, md, i, lastmass) ==
    IF i > Len(md) THEN None
    ELSE IF FLt(lastmass, r) /\ FLe(r, md[i].mass) THEN md[i].ngram
    ELSE SelectFromUpdating(r, md, i + 1, md[i].mass)

(***************************************************************************)
(* The program: a model is constructed from (N, trainingdata, smoothing),  *)
(* and sentence_probability and generate_sentence are then called on it.   *)
(*                                                                         *)
(* pc: "new" before the constructor runs, "failed" when it raised,         *)
(* "trained" when the model exists and no call is running, "for" and       *)
(* "while" inside generate_sentence (at the head of the for loop and of    *)
(* the while loop), "returned" when a call has ended and its caller holds  *)
(* the outcome in result.  The kind of result is "float" or "-inf"         *)
(* (sentence_probability), "sentences" (generate_sentence), or the name of *)
(* the exception raised.  The locals of generate_sentence hold their       *)
(* defaults outside a call.                                                *)
(***************************************************************************)
VARIABLES N, smoothing, trainingdata, wordcount, ngrams, pc, error, result,
          sentence_count, sentences, i, current_sentence, current_ngram,
          mass_distribution, r

vars == <<N, smoothing, trainingdata, wordcount, ngrams, pc, error, result,
          sentence_count, sentences, i, current_sentence, current_ngram,
          mass_distribution, r>>

config == <<N, smoothing, trainingdata>>
tables == <<wordcount, ngrams>>
locals == <<sentence_count, sentences, i, current_sentence, current_ngram,
            mass_distribution, r>>

\* Lines of at most MaxTokens word tokens, and training data of at most
\* MaxLines lines holding at most MaxTokens word tokens altogether.
Lines == UNION {[1..k -> Words] : k \in 0..MaxTokens}

RECURSIVE TotalLen(_, _)
TotalLen(c, k) == IF k > Len(c) THEN 0 ELSE Len(c[k]) + TotalLen(c, k + 1)

Corpora ==
    {c \in UNION {[1..m -> Lines] : m \in 0..MaxLines} : TotalLen(c, 1) <= MaxTokens}

\* Sentences to score: at most MaxSentWords tokens, a token possibly one that
\* no training line holds.
Sentences == UNION {[1..k -> Words \cup {OOV}] : k \in 0..MaxSentWords}

NoResult == [call |-> "none", kind |-> "none", arg |-> <<>>, p |-> Zero,
             value |-> <<>>]

Init ==
    /\ N \in Orders
    /\ smoothing \in BOOLEAN
    /\ trainingdata \in Corpora
    /\ wordcount = EmptyCounter
    /\ ngrams = EmptyCounter
    /\ pc = "new"
    /\ error = "none"
    /\ result = NoResult
    /\ sentence_count = 0
    /\ sentences = <<>>
    /\ i = 0
    /\ current_sentence = <<>>
    /\ current_ngram = None
    /\ mass_distribution = <<>>
    /\ r = Zero

ClearLocals ==
    /\ sentence_count' = 0
    /\ sentences' = <<>>
    /\ i' = 0
    /\ current_sentence' = <<>>
    /\ current_ngram' = None
    /\ mass_distribution' = <<>>
    /\ r' = Zero

\* NGram.__init__
Train ==
    /\ pc = "new"
    /\ LET st == ReadTrainingData(N, trainingdata, smoothing)
       IN /\ wordcount' = st.wordcount
          /\ ngrams' = st.ngrams
          /\ error' = st.err
          /\ pc' = IF st.err = "none" THEN "trained" ELSE "failed"
    /\ UNCHANGED <<config, result, locals>>

\* A call of sentence_probability(sentence).
Score ==
    /\ pc = "trained"
    /\ \E sent \in Sentences :
         LET out == SentenceProbability(wordcount, ngrams, N, sent)
         IN result' = [call |-> "sentence_probability", kind |-> out.kind,
                       arg |-> sent, p |-> out.p, value |-> <<>>]
    /\ pc' = "returned"
    /\ UNCHANGED <<config, tables, error, locals>>

\* The caller is done with the outcome of a call (run_model of main.py
\* prints it) and goes on.
Continue ==
    /\ pc = "returned"
    /\ pc' = "trained"
    /\ result' = NoResult
    /\ UNCHANGED <<config, tables, error, locals>>

\* The values random.random() is drawn from: one value of [0, 1) for every
\* set of values that _pmf_selection cannot tell apart on md, namely 0, each
\* cumulative mass below 1, and a value halfway between each such mass (and
\* 0) and 1.
Draws(md) ==
    LET below == {Zero} \cup {m \in {md[j].mass : j \in 1..Len(md)} : FLt(m, One)}
    IN below \cup {FMul(FAdd(m, One), [num |-> 1, den |-> 2]) : m \in below}

\* An exception leaves generate_sentence.
Raise(kind) ==
    /\ result' = [NoResult EXCEPT !.call = "generate_sentence", !.kind = kind]
    /\ pc' = "returned"
    /\ ClearLocals

\* generate_sentence(sentence_count) is called: lines 210-212.
Generate ==
    /\ pc = "trained"
    /\ \E c \in 0..MaxCount : sentence_count' = c
    /\ sentences' = <<>>
    /\ i' = 0
    /\ pc' = "for"
    /\ UNCHANGED <<config, tables, error, result, current_sentence,
                   current_ngram, mass_distribution, r>>

\* One pass of the for loop up to the while loop: lines 215-232.
BeginSentence ==
    /\ pc = "for"
    /\ i < sentence_count
    /\ IF N > 1
       THEN LET md == Pmf(StartKeys(ngrams), wordcount, ngrams, N)
            IN \E x \in Draws(md) :
                 LET sel == PmfSelection(x, md)
                 IN IF sel = None
                    \* " ".join(None)
                    THEN Raise("TypeError")
                    ELSE /\ mass_distribution' = md
                         /\ r' = x
                         /\ current_ngram' = sel
                         /\ current_sentence' = sel.v
                         /\ pc' = "while"
                         /\ UNCHANGED <<result, sentence_count, sentences, i>>
       ELSE /\ mass_distribution' = Pmf(AllKeys(ngrams), wordcount, ngrams, N)
            /\ current_ngram' = Tuple(<<START>>)
            /\ current_sentence' = <<START>>
            /\ pc' = "while"
            /\ UNCHANGED <<result, sentence_count, sentences, i, r>>
    /\ UNCHANGED <<config, tables, error>>

\* One pass of the while loop: lines 235-248.  The model stops extending a
\* sentence of MaxSentLen tokens.
WhileStep ==
    /\ pc = "while"
    /\ Last(current_ngram) # STOP
    /\ Len(current_sentence) < MaxSentLen
    /\ LET md == IF N > 1
                 THEN Pmf(ContextKeys(ngrams, current_ngram), wordcount, ngrams, N)
                 ELSE mass_distribution
       IN \E x \in Draws(md) :
            LET sel == PmfSelection(x, md)
            IN IF sel = None
               \* None[-1]
               THEN Raise("TypeError")
               ELSE IF Len(sel.v) = 0
               \* ()[-1]
               THEN Raise("IndexError")
               ELSE /\ mass_distribution' = md
                    /\ r' = x
                    /\ current_ngram' = sel
                    /\ current_sentence' = Append(current_sentence, Last(sel))
                    /\ UNCHANGED <<pc, result, sentence_count, sentences, i>>
    /\ UNCHANGED <<config, tables, error>>

\* The while loop ends: line 249.
EndSentence ==
    /\ pc = "while"
    /\ Last(current_ngram) = STOP
    /\ sentences' = Append(sentences, current_sentence)
    /\ i' = i + 1
    /\ pc' = "for"
    /\ UNCHANGED <<config, tables, error, result, sentence_count,
                   current_sentence, current_ngram, mass_distribution, r>>

\* The for loop ends: line 250.
Return ==
    /\ pc = "for"
    /\ i = sentence_count
    /\ result' = [NoResult EXCEPT !.call = "generate_sentence",
                                  !.kind = "sentences", !.value = sentences]
    /\ pc' = "returned"
    /\ ClearLocals
    /\ UNCHANGED <<config, tables, error>>

Next ==
    \/ Train
    \/ Score
    \/ Continue
    \/ Generate
    \/ BeginSentence
    \/ WhileStep
    \/ EndSentence
    \/ Return

Spec == Init /\ [][Next]_vars

\* The constructor and sentence_probability alone: the tables are those
\* every later call reads and none writes.
NextTrain ==
    \/ Train
    \/ Score
    \/ Continue

SpecTrain == Init /\ [][NextTrain]_vars

(***************************************************************************)
(* _pmf_selection on its own: every cumulative list of at most SelMaxLen   *)
(* entries with non-decreasing masses k/SelDen, k <= SelMaxNum, and every  *)
(* r = k/SelDen of [0, 1).                                                 *)
(***************************************************************************)
SelKey(j) == Tuple([d \in 1..j |-> "a"])

CumulativeLists ==
    {[j \in 1..Len(ms) |-> [ngram |-> SelKey(j), mass |-> Frac(ms[j], SelDen)]] :
       ms \in {m \in UNION {[1..k -> 0..SelMaxNum] : k \in 0..SelMaxLen} :
                 \A j \in 1..(Len(m) - 1) : m[j] <= m[j + 1]}}

InitSel ==
    /\ N = 1
    /\ smoothing = FALSE
    /\ trainingdata = <<>>
    /\ wordcount = EmptyCounter
    /\ ngrams = EmptyCounter
    /\ pc = "select"
    /\ error = "none"
    /\ result = NoResult
    /\ sentence_count = 0
    /\ sentences = <<>>
    /\ i = 0
    /\ current_sentence = <<>>
    /\ current_ngram = None
    /\ mass_distribution \in CumulativeLists
    /\ r \in {Frac(k, SelDen) : k \in 0..(SelDen - 1)}

\* A call of _pmf_selection(r, mass_distribution).
Select ==
    /\ pc = "select"
    /\ current_ngram' = PmfSelection(r, mass_distribution)
    /\ pc' = "selected"
    /\ UNCHANGED <<config, tables, error, result, sentence_count, sentences, i,
                   current_sentence, mass_distribution, r>>

NextSel == Select

SpecSel == InitSel /\ [][NextSel]_vars

(***************************************************************************)
(* Properties.                                                             *)
(***************************************************************************)
\* The model exists and no call is running.  (No action changes N,
\* smoothing, wordcount or ngrams once the constructor has returned.)
Trained == pc = "trained"

\* The sum of ngram_probability over ks[j], ks[j+1], ..., and whether every
\* one of them is defined (no division by zero).
RECURSIVE SumProbabilities(_, _)
SumProbabilities(ks, j) ==
    IF j > Len(ks) THEN [defined |-> TRUE, sum |-> Zero]
    ELSE LET q == NgramProbability(wordcount, ngrams, N, ks[j])
             rest == SumProbabilities(ks, j + 1)
         IN [defined |-> q.err = "none" /\ rest.defined,
             sum |-> FAdd(q.p, rest.sum)]

RECURSIVE SumCounts(_, _)
SumCounts(ks, j) ==
    IF j > Len(ks) THEN 0 ELSE ngrams.cnt[ks[j]] + SumCounts(ks, j + 1)

\* The (N-1)-token prefixes of the n-grams of the table (for N = 1 the one
\* empty prefix), and the n-grams of the table that have prefix c.
Contexts == {DropLast(k) : k \in DOMAIN ngrams.cnt}
InContext(c) == SelectSeq(ngrams.keys, LAMBDA k : DropLast(k) = c)

\* C1: in a trained model of order N >= 1, for every context that is the
\* prefix of an n-gram of the table, the probabilities of the n-grams of
\* that context are defined and sum to exactly 1, and their counts sum to
\* the divisor ngram_probability uses for the context.
C1_ConditionalDistributionsSumToOne ==
    (Trained /\ N >= 1) =>
      \A c \in Contexts :
        LET ks == InContext(c)
            total == SumProbabilities(ks, 1)
        IN /\ total.defined
           /\ total.sum = One
           /\ SumCounts(ks, 1) = Denominator(wordcount, ngrams, N, ks[1])

\* A smoothed bigram model in which some context holds n-grams of different
\* counts, and a smoothed unigram model of several tokens.
C1_Witness ==
    /\ pc = "trained"
    /\ smoothing
    /\ \/ /\ N = 2
          /\ \E g, h \in DOMAIN ngrams.cnt :
               /\ DropLast(g) = DropLast(h)
               /\ ngrams.cnt[g] = 2
               /\ ngrams.cnt[h] = 1
       \/ /\ N = 1
          /\ Cardinality(DOMAIN ngrams.cnt) = 4

\* C2: in a model of order N >= 1 trained with smoothing on training data
\* of at least one line, every N-tuple of keys of the token-count table has
\* a count of at least 1 in the n-gram table, and ngram_probability of it
\* does not divide by zero and is greater than 0.
C2_SmoothingCoversVocabulary ==
    (Trained /\ smoothing /\ N >= 1 /\ trainingdata # <<>>) =>
      \A t \in [1..N -> DOMAIN wordcount.cnt] :
        LET q == NgramProbability(wordcount, ngrams, N, Tuple(t))
        IN /\ Count(ngrams, Tuple(t)) >= 1
           /\ q.err = "none"
           /\ q.p.num > 0

\* A smoothed model of order 2 or more holding an n-gram no line holds.
C2_Witness ==
    /\ pc = "trained"
    /\ smoothing
    /\ N >= 2
    /\ trainingdata # <<>>
    /\ Count(ngrams, Tuple([d \in 1..N |-> STOP])) = 1
    /\ Count(ngrams, Tuple([d \in 1..N |-> "a"])) >= 1

\* The tokens the training lines hold.
TrainingTokens ==
    UNION {{trainingdata[k][j] : j \in 1..Len(trainingdata[k])} :
             k \in 1..Len(trainingdata)}

\* C3: without smoothing and with N >= 1, on a model trained on one line or
\* more, sentence_probability of a sentence holding a token that no training
\* line holds returns negative infinity (no exception, no finite value).
C3_UnseenTokenScoresNegativeInfinity ==
    ( /\ pc = "returned"
      /\ result.call = "sentence_probability"
      /\ trainingdata # <<>>
      /\ ~smoothing
      /\ N >= 1
      /\ \E j \in 1..Len(result.arg) : result.arg[j] \notin TrainingTokens )
    => result.kind = "-inf"

\* C4: for an order below 1 the constructor ends in an error and leaves no
\* n-gram or token-count table (here for training data of one line or more).
C4_OrderBelowOneRejected ==
    (N < 1 /\ pc # "new" /\ trainingdata # <<>>) =>
      /\ pc = "failed"
      /\ error # "none"

\* The wrapped line k of the training data.
Wrapped(k) == <<"<s>">> \o trainingdata[k] \o <<"</s>">>

\* The positions (line, index) at which the N tokens of g follow one another.
Occurrences(g) ==
    {q \in (1..Len(trainingdata)) \X (1..(MaxTokens + 2)) :
       /\ q[2] + N - 1 <= Len(Wrapped(q[1]))
       /\ SubSeq(Wrapped(q[1]), q[2], q[2] + N - 1) = g.v}

\* The N-tuples that occur as N consecutive tokens of a wrapped line.
Windows ==
    UNION {{Tuple(SubSeq(Wrapped(k), j, j + N - 1)) :
              j \in 1..(Len(Wrapped(k)) - N + 1)} : k \in 1..Len(trainingdata)}

AB == <<"a", "b">>

\* C5: without smoothing and with N >= 1, on lines of one word token or
\* more, the n-gram table holds exactly the N-tuples that occur as N
\* consecutive tokens of a wrapped line, each with the number of positions
\* at which it occurs.  Trained on the one line "a b": for N = 1 the counts
\* are 1 for each of <s>, a, b, </s> and the probability of (a,) is 1/4; for
\* N = 2 the n-grams are (<s>,a), (a,b), (b,</s>) with count 1, each has
\* probability 1 and the sentence "a b" scores log10 of 1, that is 0.
C5_CountsAreWindowOccurrences ==
    /\ ( /\ Trained
         /\ ~smoothing
         /\ N >= 1
         /\ \A k \in 1..Len(trainingdata) : trainingdata[k] # <<>> )
       => /\ DOMAIN ngrams.cnt = Windows
          /\ \A g \in Windows : ngrams.cnt[g] = Cardinality(Occurrences(g))
    /\ (Trained /\ ~smoothing /\ N = 1 /\ trainingdata = <<AB>>)
       => /\ ngrams.cnt = [g \in {Tuple(<<w>>) : w \in {START, "a", "b", STOP}} |-> 1]
          /\ wordcount.cnt = [w \in {START, "a", "b", STOP} |-> 1]
          /\ NgramProbability(wordcount, ngrams, N, Tuple(<<"a">>)) =
               [err |-> "none", p |-> [num |-> 1, den |-> 4]]
    /\ (Trained /\ ~smoothing /\ N = 2 /\ trainingdata = <<AB>>)
       => /\ ngrams.cnt = [g \in {Tuple(<<START, "a">>), Tuple(AB),
                                  Tuple(<<"b", STOP>>)} |-> 1]
          /\ \A g \in DOMAIN ngrams.cnt :
               NgramProbability(wordcount, ngrams, N, g) = [err |-> "none", p |-> One]
    /\ ( /\ pc = "returned"
         /\ result.call = "sentence_probability"
         /\ result.arg = AB
         /\ ~smoothing /\ N = 2 /\ trainingdata = <<AB>> )
       => (result.kind = "float" /\ result.p = One)

\* The bigram model of "a b" has scored the sentence "a b".
C5_Witness ==
    /\ pc = "returned"
    /\ result.call = "sentence_probability"
    /\ result.arg = AB
    /\ result.kind = "float"
    /\ ~smoothing
    /\ N = 2
    /\ trainingdata = <<AB>>
    /\ Cardinality(DOMAIN ngrams.cnt) = 3

\* C6: for N >= 1, no n-gram selected during generation ends in '<s>',
\* nothing is appended to a sentence after '</s>', and in every sentence
\* returned '<s>' is the first token only and '</s>' the last token only.
C6_SentinelsOnlyAtTheEnds ==
    /\ (pc = "while" /\ N >= 1 /\ Len(current_sentence) > 1)
       => Last(current_ngram) # START
    /\ (pc = "while" /\ N >= 1)
       => \A j \in 1..(Len(current_sentence) - 1) : current_sentence[j] # STOP
    /\ (pc = "returned" /\ result.kind = "sentences" /\ N >= 1)
       => \A k \in 1..Len(result.value) :
            LET s == result.value[k]
            IN \A j \in 1..Len(s) : /\ s[j] = START => j = 1
                                    /\ s[j] = STOP => j = Len(s)

\* C7: generate_sentence never ends in the TypeError of an access on the
\* None that _pmf_selection returned.
C7_NoFailureOnNoneSelection ==
    (pc = "returned" /\ result.call = "generate_sentence")
    => result.kind # "TypeError"

\* The token count, sentinels included, of the longest training line.
RECURSIVE Longest(_)
Longest(k) ==
    IF k > Len(trainingdata) THEN 0
    ELSE LET rest == Longest(k + 1)
             here == Len(trainingdata[k]) + 2
         IN IF here > rest THEN here ELSE rest

\* C8: training with N equal to the token count of the longest wrapped line
\* does not end in the IndexError of the pass that counts the last N-1
\* tokens of every line.
C8_LongestLineOrderTrains ==
    (pc # "new" /\ trainingdata # <<>> /\ N = Longest(1))
    => error # "IndexError"

\* The first entry of md whose mass is >= x and whose preceding mass (0 for
\* the first entry) is < x.
FirstEntry(x, md) ==
    LET js == {j \in 1..Len(md) :
                 /\ FLe(x, md[j].mass)
                 /\ FLt(IF j = 1 THEN Zero ELSE md[j - 1].mass, x)}
    IN IF js = {} THEN None
       ELSE md[CHOOSE j \in js : \A h \in js : j <= h].ngram

\* C9: on every cumulative list with non-decreasing masses and every r of
\* [0, 1), _pmf_selection returns what the loop with "lastmass = mass" in
\* its else branch returns, which is the first entry whose mass is >= r and
\* whose preceding mass is < r (None when there is none).
C9_SelectionIgnoresMisspelledUpdate ==
    pc = "selected" =>
      /\ current_ngram = SelectFromUpdating(r, mass_distribution, 1, Zero)
      /\ current_ngram = FirstEntry(r, mass_distribution)

\* The entry selected is the third: two iterations went through the else
\* branch before it.
C9_Witness ==
    /\ pc = "selected"
    /\ Len(mass_distribution) = 3
    /\ current_ngram = mass_distribution[3].ngram
    /\ FLt(Zero, mass_distribution[1].mass)

\* C10: for N >= 1 and a non-empty n-gram table, every cumulative PMF that
\* generate_sentence builds ends in mass 1, and every n-gram listed in it is
\* selected for some r.
C10_EveryPmfEndsInOne ==
    (pc = "while" /\ N >= 1 /\ Len(ngrams.keys) > 0) =>
      /\ Len(mass_distribution) > 0
      /\ mass_distribution[Len(mass_distribution)].mass = One
      /\ \A j \in 1..Len(mass_distribution) :
           \E x \in Draws(mass_distribution) :
             PmfSelection(x, mass_distribution) = mass_distribution[j].ngram

(***************************************************************************)
(* The n-grams a call of generate_sentence can go through.                 *)
(***************************************************************************)
\* The list the while loop selects from when current_ngram is k: the list
\* of the context k[1:] for N > 1, the list of all n-grams otherwise.
Offered(k) ==
    IF N > 1
    THEN Pmf(ContextKeys(ngrams, k), wordcount, ngrams, N)
    ELSE Pmf(AllKeys(ngrams), wordcount, ngrams, N)

\* What _pmf_selection returns on md for the values r > 0 (None included).
Selectable(md) == {PmfSelection(x, md) : x \in Draws(md) \ {Zero}}

\* The values current_ngram can have when the while loop is entered.
FirstNgrams ==
    IF N > 1
    THEN Selectable(Pmf(StartKeys(ngrams), wordcount, ngrams, N))
    ELSE {Tuple(<<START>>)}

\* current_ngram[-1] != '</s>' evaluates, and to True.
Loops(k) == k # None /\ Len(k.v) > 0 /\ Last(k) # STOP

\* current_ngram[-1] != '</s>' evaluates, and to False.
Stops(k) == k # None /\ Len(k.v) > 0 /\ Last(k) = STOP

\* The values of current_ngram that draws r > 0 lead to from those of S.
RECURSIVE Closure(_)
Closure(S) ==
    LET T == S \cup UNION {Selectable(Offered(k)) : k \in {g \in S : Loops(g)}}
    IN IF T = S THEN S ELSE Closure(T)

\* The values of R from which draws r > 0 can lead to one of S.
RECURSIVE CanReach(_, _)
CanReach(R, S) ==
    LET T == S \cup {k \in R : Loops(k) /\ Selectable(Offered(k)) \cap S # {}}
    IN IF T = S THEN S ELSE CanReach(R, T)

\* C11: in a model trained on lines that hold a token and whose wrapped
\* forms all have N tokens or more, wherever generate_sentence is about to
\* select, every n-gram that draws r > 0 can lead to from there is a proper
\* selection (never None, never empty) from which an n-gram ending in
\* '</s>' can be drawn in finitely many steps: what a call needs to return
\* its sentences under fair sampling.
C11_EndMarkerAlwaysReachable ==
    (/\ \/ pc = "for" /\ i < sentence_count
        \/ pc = "while" /\ ~Stops(current_ngram)
     /\ TrainingTokens # {}
     /\ \A k \in 1..Len(trainingdata) : Len(Wrapped(k)) >= N)
    => LET R == Closure(IF pc = "for" THEN FirstNgrams ELSE {current_ngram})
       IN /\ \A k \in R : Loops(k) \/ Stops(k)
          /\ R \subseteq CanReach(R, {k \in R : Stops(k)})

====
